---- MODULE Spec2Model ----
\* Stock tracker: the quote/history cache and provider adapter (stock_data.py),
\* the price monitor loop and the /track, /untrack, /price and /stockadvice
\* handlers of the bot (main.py, with the chart generator's and the AI
\* advisor's awaits), on one cooperative event loop.
EXTENDS Integers, Sequences, FiniteSets, TLC

\* ------------------------------------------------------------------ bounds
\* Number of get_stock_data / get_historical_data invocations in one behaviour.
MaxCalls == 3
\* Number of times the wall clock is advanced in one behaviour.
MaxAdvances == 3
\* Number of user commands in one behaviour.
MaxCommands == 2

\* Tracked symbols, StockDataManager instances, tasks of the event loop.
Symbols == {"A", "B"}
Managers == {"bot", "chart", "standalone"}
Users == {"u1", "u2"}
Tasks == Users \cup {"mon"}
Kinds == {"current", "hist"}
Keys == Symbols \X Kinds

\* Seconds by which the clock advances: inside the TTL, up to the TTL, and a
\* stretch that together with the two carries an entry across a whole day.
Deltas == {1, 59, 86340}

\* Closing prices the primary provider's daily bars carry.
Closes == {0, 100, 103}

\* ------------------------------------------------------------------ values
None == [kind |-> "none"]
Raised == [kind |-> "raised"]

\* A percentage as the exact quotient num/den (den # 0).
Rat(n, d) == [num |-> n, den |-> d]
RatEq(a, b) == a.num * b.den = b.num * a.den
Abs(x) == IF x < 0 THEN -x ELSE x

\* What yf.Ticker(symbol).info / .history(period="2d") can come back with: an
\* exception, an empty frame, a frame whose rows cannot be converted, or one
\* or two daily bars (their closes, oldest first).
YfOutcomes ==
    {[kind |-> "raise"], [kind |-> "empty"], [kind |-> "malformed"]}
    \cup {[kind |-> "bars", closes |-> <<c>>] : c \in Closes}
    \cup {[kind |-> "bars", closes |-> <<p, c>>] : p \in Closes, c \in {100, 103}}

\* What requests.get(GLOBAL_QUOTE) can come back with: an exception (timeout,
\* connection error), a non-200 status, a 200 body without 'Global Quote', a
\* 'Global Quote' whose fields are missing or not numbers, or the four fields
\* the code parses, each as sent by the provider.
AvOutcomes ==
    {[kind |-> "raise"], [kind |-> "status", code |-> 500],
     [kind |-> "no_global_quote", code |-> 200],
     [kind |-> "malformed", code |-> 200]}
    \cup {[kind |-> "quote", code |-> 200, price |-> 103, prev |-> pv,
           change |-> ch, pct |-> pc] :
             pv \in {0, 100}, ch \in {3, 5}, pc \in {0, 3}}

\* What ticker.history(period) can come back with for the historical series.
HistOutcomes ==
    {[kind |-> "raise"], [kind |-> "empty"],
     [kind |-> "bars", closes |-> <<100, 103>>]}

\* ------------------------------------------------------------------ state
VARIABLES
    now,            \* datetime.now(), in whole seconds
    advances,       \* how often the clock was advanced
    cache,          \* StockDataManager.cache of each manager: key -> entry
    calls,          \* per task: its get_stock_data / get_historical_data frame
    ncalls,         \* invocations so far
    fetches,        \* upstream requests sent so far, per manager and key
    running,        \* the task that holds the event loop, or "none"
    tracked_stocks, \* bot.tracked_stocks
    last_prices,    \* bot.last_prices: symbol -> price, NoPrice when absent
    saved,          \* the persisted tracked-stocks document
    mon,            \* the price_monitor task: position in the loop, tick log
    cmd,            \* per user task: the command it is running
    ncmds,          \* commands so far
    trail           \* the changes made to the list or to the document, in order

vars == <<now, advances, cache, calls, ncalls, fetches, running,
          tracked_stocks, last_prices, saved, mon, cmd, ncmds, trail>>

dataVars == <<now, advances, cache, calls, ncalls, fetches, running>>
botVars == <<tracked_stocks, last_prices, saved, mon, cmd, ncmds, trail>>

\* ------------------------------------------------------------------ cache
cache_duration == 60

NoEntry == [present |-> FALSE, data |-> None, timestamp |-> 0]

\* timedelta.seconds: the seconds field of the normalised (days, seconds,
\* microseconds) triple, 0 <= seconds < 86400; the days are a separate field.
TimedeltaSeconds(delta) == delta % 86400

\* The comparison turned around.
is_cache_valid_Greater(c, key, t) ==
    IF ~c[key].present
    THEN FALSE
    ELSE TimedeltaSeconds(t - c[key].timestamp) > cache_duration

_is_cache_valid(c, key, t) ==
    IF ~c[key].present
    THEN FALSE
    ELSE TimedeltaSeconds(t - c[key].timestamp) < cache_duration

\* A partial update: the payload replaced, the timestamp left as it was.
update_cache_DataOnly(c, key, data, t) ==
    [c EXCEPT ![key] = [present |-> TRUE, data |-> data,
                        timestamp |-> c[key].timestamp]]

_update_cache(c, key, data, t) ==
    [c EXCEPT ![key] = [present |-> TRUE, data |-> data, timestamp |-> t]]

\* ------------------------------------------------------- provider adapter
\* The try block of _get_yfinance_data: the quote built from the last two
\* bars, None for an empty frame, Raised when anything in the block raises.
YfinanceBody(symbol, o) ==
    IF o.kind = "raise" THEN Raised
    ELSE IF o.kind = "empty" THEN None
    ELSE IF o.kind = "malformed" THEN Raised
    ELSE LET n == Len(o.closes)
             current_price == o.closes[n]
             previous_close == IF n > 1 THEN o.closes[n - 1] ELSE current_price
             change == current_price - previous_close
             change_percent == IF previous_close # 0
                               THEN Rat(change * 100, previous_close)
                               ELSE Rat(0, 1)
         IN  [kind |-> "quote", symbol |-> symbol,
              current_price |-> current_price, change |-> change,
              change_percent |-> change_percent,
              previous_close |-> previous_close, source |-> "yfinance"]

\* Without the except clause: the exception leaves the function.
get_yfinance_data_NoExcept(symbol, o) == YfinanceBody(symbol, o)

\* _get_yfinance_data: the block under `except Exception: return None`.
_get_yfinance_data(symbol, o) ==
    LET r == YfinanceBody(symbol, o) IN IF r = Raised THEN None ELSE r

\* The try block of _get_alpha_vantage_data: the four fields are taken from
\* the response as they are.
AlphaVantageBody(symbol, o) ==
    IF o.kind = "raise" THEN Raised
    ELSE IF o.code # 200 THEN None
    ELSE IF o.kind = "no_global_quote" THEN None
    ELSE IF o.kind = "malformed" THEN Raised
    ELSE [kind |-> "quote", symbol |-> symbol,
          current_price |-> o.price, change |-> o.change,
          change_percent |-> Rat(o.pct, 1),
          previous_close |-> o.prev, source |-> "alpha_vantage"]

\* _get_alpha_vantage_data: the block under `except Exception: return None`.
_get_alpha_vantage_data(symbol, o) ==
    LET r == AlphaVantageBody(symbol, o) IN IF r = Raised THEN None ELSE r

\* The try block of get_historical_data after the cache check.
HistoricalBody(symbol, o) ==
    IF o.kind = "raise" THEN Raised
    ELSE IF o.kind = "empty" THEN None
    ELSE [kind |-> "hist", symbol |-> symbol, closes |-> o.closes]

\* The exception re-raised to the caller.
ExceptReturnNone_Reraise(r) == r

\* `except Exception: return None` of get_stock_data / get_historical_data.
ExceptReturnNone(r) == IF r = Raised THEN None ELSE r

\* ------------------------------------------------------------ call frames
\* A frame of get_stock_data (kind "current") or get_historical_data (kind
\* "hist"). pc: idle, primary / fallback / hist (suspended on that request),
\* ret (returned, the caller not yet resumed). hadEntry, startAge, startData:
\* the cache entry as the call found it. primary, fallback: "none" while not
\* requested, "pending", then "quote" or "nodata". primaryReply: what the
\* primary provider answered.
IdleCall ==
    [pc |-> "idle", mgr |-> "bot", kind |-> "current", sym |-> "A",
     result |-> None, hadEntry |-> FALSE, startAge |-> 0, startData |-> None,
     primary |-> "none", fallback |-> "none", primaryReply |-> None]

CacheKey(c) == <<c.sym, c.kind>>

\* Single-flight: a call that misses while another call for the same key is
\* waiting for its request sends none of its own and comes back empty.
StartCall_SingleFlight(m, kind, sym) ==
    LET key == <<sym, kind>>
        e == cache[m][key]
        base == [IdleCall EXCEPT !.mgr = m, !.kind = kind, !.sym = sym,
                     !.hadEntry = e.present,
                     !.startAge = IF e.present THEN now - e.timestamp ELSE 0,
                     !.startData = e.data]
    IN  IF _is_cache_valid(cache[m], key, now)
        THEN [base EXCEPT !.pc = "ret", !.result = cache[m][key].data]
        ELSE IF \E t \in Tasks : /\ calls[t].pc \in {"primary", "fallback", "hist"}
                                 /\ calls[t].mgr = m
                                 /\ CacheKey(calls[t]) = key
        THEN [base EXCEPT !.pc = "ret", !.result = None]
        ELSE IF kind = "current"
        THEN [base EXCEPT !.pc = "primary", !.primary = "pending"]
        ELSE [base EXCEPT !.pc = "hist", !.primary = "pending"]

\* get_stock_data / get_historical_data from the call to the first await or,
\* on a cache hit, to the return.
StartCall(m, kind, sym) ==
    LET key == <<sym, kind>>
        e == cache[m][key]
        base == [IdleCall EXCEPT !.mgr = m, !.kind = kind, !.sym = sym,
                     !.hadEntry = e.present,
                     !.startAge = IF e.present THEN now - e.timestamp ELSE 0,
                     !.startData = e.data]
    IN  IF _is_cache_valid(cache[m], key, now)
        THEN [base EXCEPT !.pc = "ret", !.result = cache[m][key].data]
        ELSE IF kind = "current"
        THEN [base EXCEPT !.pc = "primary", !.primary = "pending"]
        ELSE [base EXCEPT !.pc = "hist", !.primary = "pending"]

\* The `return data` after the primary's quote left out: the fallback is
\* asked as well.
AfterPrimary_NoReturn(c, o) ==
    LET data == _get_yfinance_data(c.sym, o)
        c1 == [c EXCEPT !.primaryReply = o]
    IN
    IF data # None
    THEN [call |-> [c1 EXCEPT !.pc = "fallback", !.primary = "quote",
                              !.fallback = "pending", !.result = data],
          store |-> TRUE]
    ELSE [call |-> [c1 EXCEPT !.pc = "fallback", !.primary = "nodata",
                              !.fallback = "pending"],
          store |-> FALSE]

\* get_stock_data resumed with the primary provider's reply o (lines 34-41).
AfterPrimary(c, o) ==
    LET data == _get_yfinance_data(c.sym, o)
        c1 == [c EXCEPT !.primaryReply = o]
    IN
    IF data = Raised
    THEN [call |-> [c1 EXCEPT !.pc = "ret", !.primary = "nodata",
                              !.result = ExceptReturnNone(Raised)],
          store |-> FALSE]
    ELSE IF data # None
    THEN [call |-> [c1 EXCEPT !.pc = "ret", !.primary = "quote", !.result = data],
          store |-> TRUE]
    ELSE [call |-> [c1 EXCEPT !.pc = "fallback", !.primary = "nodata",
                              !.fallback = "pending"],
          store |-> FALSE]

\* The stale entry served when both providers failed.
AfterFallback_ServeStale(c, o) ==
    LET data == _get_alpha_vantage_data(c.sym, o) IN
    IF data # None /\ data # Raised
    THEN [call |-> [c EXCEPT !.pc = "ret", !.fallback = "quote", !.result = data],
          store |-> TRUE]
    ELSE [call |-> [c EXCEPT !.pc = "ret", !.fallback = "nodata",
                             !.result = c.startData],
          store |-> FALSE]

\* get_stock_data resumed with the fallback provider's reply o (lines 41-47).
AfterFallback(c, o) ==
    LET data == _get_alpha_vantage_data(c.sym, o) IN
    IF data = Raised
    THEN [call |-> [c EXCEPT !.pc = "ret", !.fallback = "nodata",
                             !.result = ExceptReturnNone(Raised)],
          store |-> FALSE]
    ELSE IF data # None
    THEN [call |-> [c EXCEPT !.pc = "ret", !.fallback = "quote", !.result = data],
          store |-> TRUE]
    ELSE [call |-> [c EXCEPT !.pc = "ret", !.fallback = "nodata", !.result = None],
          store |-> FALSE]

\* Without `if not hist.empty`: an empty frame is stored and returned as a
\* series without rows.
AfterHistory_StoreEmpty(c, o) ==
    LET hist == HistoricalBody(c.sym, o)
        c1 == [c EXCEPT !.primaryReply = o]
    IN
    IF hist = Raised
    THEN [call |-> [c1 EXCEPT !.pc = "ret", !.primary = "nodata",
                              !.result = ExceptReturnNone(Raised)],
          store |-> FALSE]
    ELSE IF hist # None
    THEN [call |-> [c1 EXCEPT !.pc = "ret", !.primary = "quote", !.result = hist],
          store |-> TRUE]
    ELSE [call |-> [c1 EXCEPT !.pc = "ret", !.primary = "nodata",
                              !.result = [kind |-> "hist", symbol |-> c.sym,
                                          closes |-> <<>>]],
          store |-> TRUE]

\* get_historical_data resumed with the provider's reply o (lines 150-160).
AfterHistory(c, o) ==
    LET hist == HistoricalBody(c.sym, o)
        c1 == [c EXCEPT !.primaryReply = o]
    IN
    IF hist = Raised
    THEN [call |-> [c1 EXCEPT !.pc = "ret", !.primary = "nodata",
                              !.result = ExceptReturnNone(Raised)],
          store |-> FALSE]
    ELSE IF hist # None
    THEN [call |-> [c1 EXCEPT !.pc = "ret", !.primary = "quote", !.result = hist],
          store |-> TRUE]
    ELSE [call |-> [c1 EXCEPT !.pc = "ret", !.primary = "nodata", !.result = None],
          store |-> FALSE]

\* ------------------------------------------------------------------ actions
\* The request made on the event loop's own thread: the task keeps the loop
\* while the request is out.
Begin_Blocking(t, m, kind, sym) ==
    LET c == StartCall(m, kind, sym) IN
    /\ calls' = [calls EXCEPT ![t] = c]
    /\ ncalls' = ncalls + 1
    /\ fetches' = IF c.pc = "ret" THEN fetches
                  ELSE [fetches EXCEPT ![m][<<sym, kind>>] = @ + 1]
    /\ running' = t
    /\ UNCHANGED <<now, advances, cache>>

\* The state change of task t entering get_stock_data / get_historical_data:
\* on a hit it goes on with the entry, on a miss it is suspended on
\* `await loop.run_in_executor(...)` and the event loop is free.
Begin(t, m, kind, sym) ==
    LET c == StartCall(m, kind, sym) IN
    /\ calls' = [calls EXCEPT ![t] = c]
    /\ ncalls' = ncalls + 1
    /\ fetches' = IF c.pc = "ret" THEN fetches
                  ELSE [fetches EXCEPT ![m][<<sym, kind>>] = @ + 1]
    /\ running' = IF c.pc = "ret" THEN t ELSE "none"
    /\ UNCHANGED <<now, advances, cache>>

\* A call that starts a command, a tick's step or a caller's request, within
\* the number of calls of one behaviour.
Enter(t, m, kind, sym) ==
    /\ ncalls < MaxCalls
    /\ Begin(t, m, kind, sym)

\* The state change of a reply r == [call, store] reaching task t.
Reply(t, r) ==
    LET c == r.call
        m == c.mgr
    IN  /\ calls' = [calls EXCEPT ![t] = c]
        /\ cache' = IF r.store
                    THEN [cache EXCEPT ![m] = _update_cache(@, CacheKey(c), c.result, now)]
                    ELSE cache
        /\ fetches' = IF c.pc = "fallback"
                      THEN [fetches EXCEPT ![m][CacheKey(c)] = @ + 1]
                      ELSE fetches
        /\ running' = IF c.pc = "ret" THEN t ELSE "none"
        /\ UNCHANGED <<now, advances, ncalls>>

\* A user task calls get_stock_data or get_historical_data of the bot's manager.
Call(t, kind, sym) ==
    /\ running = "none"
    /\ calls[t].pc = "idle"
    /\ cmd[t].pc = "idle"
    /\ Enter(t, "bot", kind, sym)
    /\ UNCHANGED botVars

\* The executor future of the primary provider's request completes.
PrimaryReturn(t, o) ==
    /\ running = "none"
    /\ calls[t].pc = "primary"
    /\ Reply(t, AfterPrimary(calls[t], o))
    /\ UNCHANGED botVars

\* The executor future of the fallback provider's request completes.
FallbackReturn(t, o) ==
    /\ running = "none"
    /\ calls[t].pc = "fallback"
    /\ Reply(t, AfterFallback(calls[t], o))
    /\ UNCHANGED botVars

\* The executor future of the history request completes.
HistoryReturn(t, o) ==
    /\ running = "none"
    /\ calls[t].pc = "hist"
    /\ Reply(t, AfterHistory(calls[t], o))
    /\ UNCHANGED botVars

\* The caller takes the returned value and ends.
Return(t) ==
    /\ running = t
    /\ calls[t].pc = "ret"
    /\ cmd[t].pc = "idle"
    /\ calls' = [calls EXCEPT ![t] = IdleCall]
    /\ running' = "none"
    /\ UNCHANGED <<now, advances, cache, ncalls, fetches, botVars>>

\* Wall-clock time passes while no task is running.
Advance(d) ==
    /\ running = "none"
    /\ advances < MaxAdvances
    /\ now' = now + d
    /\ advances' = advances + 1
    /\ UNCHANGED <<cache, calls, ncalls, fetches, running, botVars>>

\* ------------------------------------------------------------ persistence
\* The tracked-stocks JSON document: {stocks, last_updated, count}.
Document(stocks) == [stocks |-> stocks, count |-> Len(stocks)]

\* What open(file, 'w') + json.dump can do: write the document, or raise
\* before anything is written.
WriteOutcomes == {"ok", "fail"}

\* The write left out: the document stays as it was.
save_tracked_stocks_NoWrite(doc, stocks, w) == doc

\* PersistenceManager.save_tracked_stocks: the document after the call.
save_tracked_stocks(doc, stocks, w) ==
    IF w = "ok" THEN Document(stocks) ELSE doc

\* ------------------------------------------------------------------ lists
\* `symbol in stocks`
Contains(stocks, symbol) == \E k \in 1..Len(stocks) : stocks[k] = symbol

\* list.pop(0) in place of list.remove(symbol): drops the head.
ListRemove_Head(stocks, symbol) == SubSeq(stocks, 2, Len(stocks))

\* list.remove: drops the first occurrence.
ListRemove(stocks, symbol) ==
    LET k == CHOOSE n \in 1..Len(stocks) :
                 /\ stocks[n] = symbol
                 /\ \A m \in 1..(n - 1) : stocks[m] # symbol
    IN  SubSeq(stocks, 1, k - 1) \o SubSeq(stocks, k + 1, Len(stocks))

\* str.upper() on the symbols a user can type.
Upper(x) == IF x = "a" THEN "A" ELSE IF x = "b" THEN "B" ELSE x
\* str.lower() on the tracked symbols.
Lower(x) == IF x = "A" THEN "a" ELSE IF x = "B" THEN "b" ELSE x
TypedSymbols == {"A", "B", "b"}

\* ------------------------------------------------------------------ alerts
\* bot.guilds: the text channel names of each guild, in guild order.
Guilds == << <<"stock-a", "general">>, <<"trading", "general">> >>
GeneralChannels == {"general", "stock-alerts", "trading"}
ChannelIds == {<<g, k>> : g \in 1..Len(Guilds), k \in 1..2}

\* What channel.send does per channel: delivers, raises discord.Forbidden,
\* or raises another exception (HTTPException, NotFound, a closed session).
SendOutcomes == {"ok", "forbidden", "error"}

\* discord.utils.get(guild.text_channels, name=...): index of the first
\* channel of that name, 0 when there is none.
FindChannel(channels, name) ==
    IF \E k \in 1..Len(channels) : channels[k] = name
    THEN CHOOSE k \in 1..Len(channels) :
             /\ channels[k] = name
             /\ \A m \in 1..(k - 1) : channels[m] # name
    ELSE 0

\* One channel.send: the channel and whether it was tried as the guild's
\* stock channel or in the loop over the general channels.
Attempt(g, k, as) == [ch |-> <<g, k>>, as |-> as]

\* The fallback loop over guild.text_channels from index k on (lines 139-145):
\* [sent, tried, raised] for guild g.
RECURSIVE GeneralLoop(_, _, _)
GeneralLoop(g, k, out) ==
    IF k > Len(Guilds[g]) THEN [sent |-> <<>>, tried |-> <<>>, raised |-> FALSE]
    ELSE IF Guilds[g][k] \notin GeneralChannels THEN GeneralLoop(g, k + 1, out)
    ELSE IF out[<<g, k>>] = "ok"
    THEN [sent |-> << <<g, k>> >>, tried |-> <<Attempt(g, k, "general")>>,
          raised |-> FALSE]
    ELSE IF out[<<g, k>>] = "forbidden"
    THEN LET rest == GeneralLoop(g, k + 1, out) IN
         [rest EXCEPT !.tried = <<Attempt(g, k, "general")>> \o @]
    ELSE [sent |-> <<>>, tried |-> <<Attempt(g, k, "general")>>, raised |-> TRUE]

\* The `continue` after the send to the stock channel left out: the loop
\* over the general channels follows a delivered alert as well.
GuildAlert_NoContinue(symbol, g, out) ==
    LET sc == FindChannel(Guilds[g], "stock-" \o Lower(symbol))
        rest == GeneralLoop(g, 1, out)
    IN
    IF sc # 0 /\ out[<<g, sc>>] = "ok"
    THEN [sent |-> << <<g, sc>> >> \o rest.sent,
          tried |-> <<Attempt(g, sc, "stock")>> \o rest.tried,
          raised |-> rest.raised]
    ELSE IF sc # 0 /\ out[<<g, sc>>] = "error"
    THEN [sent |-> <<>>, tried |-> <<Attempt(g, sc, "stock")>>, raised |-> TRUE]
    ELSE IF sc # 0
    THEN [rest EXCEPT !.tried = <<Attempt(g, sc, "stock")>> \o @]
    ELSE rest

\* The body of `for guild in self.guilds` for guild g (lines 127-145).
GuildAlert(symbol, g, out) ==
    LET sc == FindChannel(Guilds[g], "stock-" \o Lower(symbol)) IN
    IF sc # 0 /\ out[<<g, sc>>] = "ok"
    THEN [sent |-> << <<g, sc>> >>, tried |-> <<Attempt(g, sc, "stock")>>,
          raised |-> FALSE]
    ELSE IF sc # 0 /\ out[<<g, sc>>] = "error"
    THEN [sent |-> <<>>, tried |-> <<Attempt(g, sc, "stock")>>, raised |-> TRUE]
    ELSE IF sc # 0
    THEN LET rest == GeneralLoop(g, 1, out) IN
         [rest EXCEPT !.tried = <<Attempt(g, sc, "stock")>> \o @]
    ELSE GeneralLoop(g, 1, out)

\* send_price_alert from guild g on: the channels that got the alert, the
\* sends that were tried, and whether an exception left the function.
RECURSIVE SendFrom(_, _, _)
SendFrom(symbol, g, out) ==
    IF g > Len(Guilds) THEN [sent |-> <<>>, tried |-> <<>>, raised |-> FALSE]
    ELSE LET r == GuildAlert(symbol, g, out) IN
         IF r.raised THEN r
         ELSE LET rest == SendFrom(symbol, g + 1, out) IN
              [sent |-> r.sent \o rest.sent, tried |-> r.tried \o rest.tried,
               raised |-> rest.raised]

send_price_alert(symbol, out) == SendFrom(symbol, 1, out)

\* ----------------------------------------------------------- configuration
\* The PRICE_ALERT_THRESHOLD variable of the process environment: unset, or
\* a percentage.
ThresholdEnv ==
    {[set |-> FALSE, value |-> 0]}
    \cup {[set |-> TRUE, value |-> v] : v \in {1, 2, 3}}

\* Config.PRICE_ALERT_THRESHOLD: float(os.getenv("PRICE_ALERT_THRESHOLD", "2.0"))
PRICE_ALERT_THRESHOLD(env) == IF env.set THEN env.value ELSE 2

\* ----------------------------------------------------------- price monitor
\* The alert threshold written into price_monitor, in percent.
AlertThreshold == 2

NoPrice == [present |-> FALSE, price |-> 0]
Price(p) == [present |-> TRUE, price |-> p]

\* The default of .get written as 0 in place of the current price.
LastPriceOr_Zero(symbol, current_price) ==
    IF last_prices[symbol].present THEN last_prices[symbol].price
    ELSE 0

\* self.last_prices.get(symbol, current_price)
LastPriceOr(symbol, current_price) ==
    IF last_prices[symbol].present THEN last_prices[symbol].price
    ELSE current_price

\* ((current_price - last_price) / last_price) * 100
ChangePercent(current_price, last_price) ==
    Rat((current_price - last_price) * 100, last_price)

\* The comparison made strict.
ShouldAlert_Strict(current_price, last_price) ==
    IF last_price # 0
    THEN LET cp == ChangePercent(current_price, last_price)
         IN  Abs(cp.num) > AlertThreshold * Abs(cp.den)
    ELSE FALSE

\* abs(change_percent) >= 2.0, behind `if last_price != 0`
ShouldAlert(current_price, last_price) ==
    IF last_price # 0
    THEN LET cp == ChangePercent(current_price, last_price)
         IN  Abs(cp.num) >= AlertThreshold * Abs(cp.den)
    ELSE FALSE

\* The price_monitor task. pc: idle (between ticks), loop (at the `for`),
\* quote (in get_stock_data), alert (in send_price_alert), done (the
\* coroutine returned; the loop's timer takes over). i: how many items
\* the list iterator has yielded. status, list0, changed, log: the tick so
\* far (how it ended, the list it started on, whether a command changed the
\* list meanwhile, the symbols removed from it meanwhile, one entry per
\* symbol it reached).
IdleMon ==
    [pc |-> "idle", i |-> 0, sym |-> "A", status |-> "none",
     list0 |-> <<>>, changed |-> FALSE, removed |-> {}, log |-> <<>>]

LogEntry(sym, got, price, base, alerted, raised, updated) ==
    [sym |-> sym, got |-> got, price |-> price, base |-> base,
     alerted |-> alerted, raised |-> raised, updated |-> updated]

\* `break` in place of `continue`: the tick ends at the symbol without data.
NoData_Break(m, symbol) ==
    [m EXCEPT !.pc = "done", !.status = "completed",
              !.log = Append(@, LogEntry(symbol, FALSE, 0, 0, FALSE, FALSE, FALSE))]

\* `if not current_data: continue` (lines 94-95): on to the next symbol.
NoDataContinue(m, symbol) ==
    [m EXCEPT !.pc = "loop",
              !.log = Append(@, LogEntry(symbol, FALSE, 0, 0, FALSE, FALSE, FALSE))]

\* A tick starts: `if not self.tracked_stocks: return`, else iter(list).
MonitorTick ==
    /\ running = "none"
    /\ mon.pc = "idle"
    /\ IF tracked_stocks = <<>>
       THEN /\ mon' = [IdleMon EXCEPT !.pc = "done", !.status = "noop"]
            /\ running' = "none"
       ELSE /\ mon' = [IdleMon EXCEPT !.pc = "loop", !.status = "running",
                                      !.list0 = tracked_stocks]
            /\ running' = "mon"
    /\ UNCHANGED <<now, advances, cache, calls, ncalls, fetches,
                   tracked_stocks, last_prices, saved, cmd, ncmds, trail>>

\* next() on the list iterator: the item at the iterator's index in the list
\* as it is now, then get_stock_data(symbol); or the end of the tick.
MonitorNext ==
    /\ running = "mon"
    /\ mon.pc = "loop"
    /\ IF mon.i < Len(tracked_stocks)
       THEN LET symbol == tracked_stocks[mon.i + 1] IN
            /\ Enter("mon", "bot", "current", symbol)
            /\ mon' = [mon EXCEPT !.pc = "quote", !.i = @ + 1, !.sym = symbol]
       ELSE /\ mon' = [mon EXCEPT !.pc = "done", !.status = "completed"]
            /\ running' = "none"
            /\ UNCHANGED <<now, advances, cache, calls, ncalls, fetches>>
    /\ UNCHANGED <<tracked_stocks, last_prices, saved, cmd, ncmds, trail>>

\* get_stock_data returned (lines 94-108): skip the symbol, raise an alert,
\* or record the price.
MonitorGotQuote ==
    /\ running = "mon"
    /\ mon.pc = "quote"
    /\ calls["mon"].pc = "ret"
    /\ LET current_data == calls["mon"].result
           symbol == mon.sym
       IN  IF current_data = None
           THEN /\ mon' = NoDataContinue(mon, symbol)
                /\ running' = IF mon'.pc = "loop" THEN "mon" ELSE "none"
                /\ UNCHANGED last_prices
           ELSE LET current_price == current_data.current_price
                    last_price == LastPriceOr(symbol, current_price)
                IN  IF ShouldAlert(current_price, last_price)
                    THEN /\ mon' = [mon EXCEPT !.pc = "alert",
                                        !.log = Append(@, LogEntry(symbol, TRUE,
                                                   current_price, last_price,
                                                   TRUE, FALSE, FALSE))]
                         /\ running' = "none"
                         /\ UNCHANGED last_prices
                    ELSE /\ mon' = [mon EXCEPT !.pc = "loop",
                                        !.log = Append(@, LogEntry(symbol, TRUE,
                                                   current_price, last_price,
                                                   FALSE, FALSE, TRUE))]
                         /\ last_prices' = [last_prices EXCEPT
                                               ![symbol] = Price(current_price)]
                         /\ running' = "mon"
    /\ calls' = [calls EXCEPT !["mon"] = IdleCall]
    /\ UNCHANGED <<now, advances, cache, ncalls, fetches,
                   tracked_stocks, saved, cmd, ncmds, trail>>

\* What the tick does when send_price_alert raised: the `except Exception`
\* around the whole `for` (lines 110-111) logs it and the tick is over.
AlertRaised(m) ==
    [m EXCEPT !.pc = "done", !.status = "aborted",
              !.log[Len(m.log)].raised = TRUE]

\* send_price_alert is over, with `out` what each channel.send did.
MonitorAlertReturn(out) ==
    /\ running = "none"
    /\ mon.pc = "alert"
    /\ LET r == send_price_alert(mon.sym, out)
           n == Len(mon.log)
       IN  IF r.raised
           THEN /\ mon' = AlertRaised(mon)
                /\ running' = "none"
                /\ UNCHANGED last_prices
           ELSE /\ mon' = [mon EXCEPT !.pc = "loop", !.log[n].updated = TRUE]
                /\ last_prices' = [last_prices EXCEPT
                                      ![mon.sym] = Price(mon.log[n].price)]
                /\ running' = "mon"
    /\ UNCHANGED <<now, advances, cache, calls, ncalls, fetches,
                   tracked_stocks, saved, cmd, ncmds, trail>>

\* @tasks.loop(minutes=5), in seconds.
MonitorPeriod == 300

\* tasks.loop: the tick's coroutine is finished; the loop sleeps until the
\* next period is due.
MonitorSleep ==
    /\ running = "none"
    /\ mon.pc = "done"
    /\ advances < MaxAdvances
    /\ mon' = IdleMon
    /\ now' = now + MonitorPeriod
    /\ advances' = advances + 1
    /\ UNCHANGED <<cache, calls, ncalls, fetches, running,
                   tracked_stocks, last_prices, saved, cmd, ncmds, trail>>

\* --------------------------------------------------------------- commands
\* A command of a user. pc: idle, quote / chart / hist (in that call of the
\* data manager), render (the chart is drawn in the executor), ai (the
\* completion is requested in the executor). reply: what the user's last
\* /price or /stockadvice sent back.
IdleCmd == [pc |-> "idle", name |-> "none", sym |-> "A", reply |-> "none",
            historical_data |-> None, context |-> [bars |-> 0],
            description |-> 0, followups |-> <<>>]

\* A command changed bot.tracked_stocks: a tick in progress is marked.
MarkChanged ==
    IF mon.pc \in {"idle", "done"} THEN mon ELSE [mon EXCEPT !.changed = TRUE]

\* The embed a command sends after it changed the list: "Added ... to
\* Tracking" or "Removed ... from Tracking". The value save_tracked_stocks
\* returned (True for w = "ok", False for "fail") is not looked at.
CommandReply(name, w) == IF name = "track" THEN "added" ELSE "removed"

\* One change of bot.tracked_stocks by a command: the command, its symbol,
\* the list before the change, what the write of the document did and what
\* the command then told the user.
TrailEntry(name, symbol, before, w) ==
    [name |-> name, sym |-> symbol, before |-> before, w |-> w,
     reply |-> CommandReply(name, w)]

\* /untrack removed `symbol` from bot.tracked_stocks: a tick in progress is
\* marked, and remembers the symbol.
MarkRemoved(symbol) ==
    IF mon.pc \in {"idle", "done"} THEN mon
    ELSE [mon EXCEPT !.changed = TRUE, !.removed = @ \cup {symbol}]

\* /track: after defer(), symbol.upper() and get_stock_data(symbol).
TrackStart(t, typed) ==
    /\ running = "none"
    /\ cmd[t].pc = "idle"
    /\ calls[t].pc = "idle"
    /\ ncmds < MaxCommands
    /\ Enter(t, "bot", "current", Upper(typed))
    /\ cmd' = [cmd EXCEPT ![t] = [IdleCmd EXCEPT !.pc = "quote", !.name = "track",
                                                 !.sym = Upper(typed)]]
    /\ ncmds' = ncmds + 1
    /\ UNCHANGED <<tracked_stocks, last_prices, saved, mon, trail>>

\* The membership test made before the quote is awaited and not again
\* after it: the command appends whatever the list has become meanwhile.
TrackGotQuote_NoRecheck(t, w) ==
    /\ running = t
    /\ cmd[t].name = "track"
    /\ calls[t].pc = "ret"
    /\ LET symbol == cmd[t].sym IN
       IF calls[t].result = None
       THEN UNCHANGED <<tracked_stocks, saved, mon, trail>>
       ELSE /\ tracked_stocks' = Append(tracked_stocks, symbol)
            /\ saved' = save_tracked_stocks(saved, tracked_stocks', w)
            /\ mon' = MarkChanged
            /\ trail' = Append(trail, TrailEntry("track", symbol, tracked_stocks, w))
    /\ cmd' = [cmd EXCEPT ![t] = IdleCmd]
    /\ calls' = [calls EXCEPT ![t] = IdleCall]
    /\ running' = "none"
    /\ UNCHANGED <<now, advances, cache, ncalls, fetches, last_prices, ncmds>>

\* /track resumed with the quote (lines 270-280): give up, or append and save.
TrackGotQuote(t, w) ==
    /\ running = t
    /\ cmd[t].name = "track"
    /\ calls[t].pc = "ret"
    /\ LET symbol == cmd[t].sym IN
       IF calls[t].result = None \/ Contains(tracked_stocks, symbol)
       THEN UNCHANGED <<tracked_stocks, saved, mon, trail>>
       ELSE /\ tracked_stocks' = Append(tracked_stocks, symbol)
            /\ saved' = save_tracked_stocks(saved, tracked_stocks', w)
            /\ mon' = MarkChanged
            /\ trail' = Append(trail, TrailEntry("track", symbol, tracked_stocks, w))
    /\ cmd' = [cmd EXCEPT ![t] = IdleCmd]
    /\ calls' = [calls EXCEPT ![t] = IdleCall]
    /\ running' = "none"
    /\ UNCHANGED <<now, advances, cache, ncalls, fetches, last_prices, ncmds>>

\* The baseline of the symbol deleted together with the symbol.
Untrack_DropBaseline(t, typed, w) ==
    /\ running = "none"
    /\ cmd[t].pc = "idle"
    /\ calls[t].pc = "idle"
    /\ ncmds < MaxCommands
    /\ ncmds' = ncmds + 1
    /\ LET symbol == Upper(typed) IN
       /\ Contains(tracked_stocks, symbol)
       /\ tracked_stocks' = ListRemove(tracked_stocks, symbol)
       /\ saved' = save_tracked_stocks(saved, tracked_stocks', w)
       /\ mon' = MarkRemoved(symbol)
       /\ trail' = Append(trail, TrailEntry("untrack", symbol, tracked_stocks, w))
       /\ last_prices' = [last_prices EXCEPT ![symbol] = NoPrice]
    /\ UNCHANGED <<now, advances, cache, calls, ncalls, fetches, running, cmd>>

\* /untrack after defer() (lines 311-319): remove and save.
Untrack(t, typed, w) ==
    /\ running = "none"
    /\ cmd[t].pc = "idle"
    /\ calls[t].pc = "idle"
    /\ ncmds < MaxCommands
    /\ ncmds' = ncmds + 1
    /\ LET symbol == Upper(typed) IN
       /\ Contains(tracked_stocks, symbol)
       /\ tracked_stocks' = ListRemove(tracked_stocks, symbol)
       /\ saved' = save_tracked_stocks(saved, tracked_stocks', w)
       /\ mon' = MarkRemoved(symbol)
       /\ trail' = Append(trail, TrailEntry("untrack", symbol, tracked_stocks, w))
    /\ UNCHANGED <<now, advances, cache, calls, ncalls, fetches, running,
                   last_prices, cmd>>

\* A /price or /stockadvice handler of task t ends with `reply` sent.
Finish(t, reply) ==
    /\ cmd' = [cmd EXCEPT ![t] = [IdleCmd EXCEPT !.reply = reply]]
    /\ calls' = [calls EXCEPT ![t] = IdleCall]
    /\ running' = "none"

\* /price: after defer(), symbol.upper() and get_stock_data(symbol) of the
\* bot's manager.
PriceStart(t, typed) ==
    /\ running = "none"
    /\ cmd[t].pc = "idle"
    /\ calls[t].pc = "idle"
    /\ ncmds < MaxCommands
    /\ Enter(t, "bot", "current", Upper(typed))
    /\ cmd' = [cmd EXCEPT ![t] = [IdleCmd EXCEPT !.pc = "quote", !.name = "price",
                                                 !.sym = Upper(typed)]]
    /\ ncmds' = ncmds + 1
    /\ UNCHANGED <<tracked_stocks, last_prices, saved, mon, trail>>

\* /price resumed with the quote: "could not fetch", or on to
\* create_candlestick_chart, which asks the chart generator's own manager
\* for the series.
PriceGotQuote(t) ==
    /\ running = t
    /\ cmd[t].name = "price" /\ cmd[t].pc = "quote"
    /\ calls[t].pc = "ret"
    /\ IF calls[t].result = None
       THEN /\ Finish(t, "no_data")
            /\ UNCHANGED <<now, advances, cache, ncalls, fetches>>
       ELSE /\ Begin(t, "chart", "hist", cmd[t].sym)
            /\ cmd' = [cmd EXCEPT ![t].pc = "chart"]
    /\ UNCHANGED <<tracked_stocks, last_prices, saved, mon, ncmds, trail>>

\* create_candlestick_chart resumed with the series: no chart without one,
\* else _create_chart_sync goes to the executor.
PriceGotHistory(t) ==
    /\ running = t
    /\ cmd[t].name = "price" /\ cmd[t].pc = "chart"
    /\ calls[t].pc = "ret"
    /\ IF calls[t].result = None
       THEN Finish(t, "embed")
       ELSE /\ cmd' = [cmd EXCEPT ![t].pc = "render"]
            /\ calls' = [calls EXCEPT ![t] = IdleCall]
            /\ running' = "none"
    /\ UNCHANGED <<now, advances, cache, ncalls, fetches,
                   tracked_stocks, last_prices, saved, mon, ncmds, trail>>

\* What drawing the chart does: writes the file, or raises.
RenderOutcomes == {"ok", "raise"}

\* The executor future of the drawing completes: the embed goes out with
\* the chart, or without it when drawing raised (create_candlestick_chart
\* turns the exception into None).
PriceRendered(t, r) ==
    /\ running = "none"
    /\ cmd[t].name = "price" /\ cmd[t].pc = "render"
    /\ Finish(t, IF r = "ok" THEN "embed_chart" ELSE "embed")
    /\ UNCHANGED <<now, advances, cache, ncalls, fetches,
                   tracked_stocks, last_prices, saved, mon, ncmds, trail>>

\* /stockadvice: after defer(), symbol.upper() and get_stock_data(symbol) of
\* the bot's manager.
AdviceStart(t, typed) ==
    /\ running = "none"
    /\ cmd[t].pc = "idle"
    /\ calls[t].pc = "idle"
    /\ ncmds < MaxCommands
    /\ Enter(t, "bot", "current", Upper(typed))
    /\ cmd' = [cmd EXCEPT ![t] = [IdleCmd EXCEPT !.pc = "quote", !.name = "advice",
                                                 !.sym = Upper(typed)]]
    /\ ncmds' = ncmds + 1
    /\ UNCHANGED <<tracked_stocks, last_prices, saved, mon, trail>>

\* /stockadvice resumed with the quote: "could not fetch", or on to
\* get_historical_data of the bot's manager.
AdviceGotQuote(t) ==
    /\ running = t
    /\ cmd[t].name = "advice" /\ cmd[t].pc = "quote"
    /\ calls[t].pc = "ret"
    /\ IF calls[t].result = None
       THEN /\ Finish(t, "no_data")
            /\ UNCHANGED <<now, advances, cache, ncalls, fetches>>
       ELSE /\ Begin(t, "bot", "hist", cmd[t].sym)
            /\ cmd' = [cmd EXCEPT ![t].pc = "hist"]
    /\ UNCHANGED <<tracked_stocks, last_prices, saved, mon, ncmds, trail>>

\* ---------------------------------------------------------------------
\* AIAdvisor._calculate_technical_indicators: the floats of the context.
\* ---------------------------------------------------------------------

\* A float that is not a number, the quotient of a positive float by zero,
\* a finite float n/d, a finite float whose magnitude is not computed here
\* (std, max, min and the quotient of the Volume column), and a key that is
\* not in the dict.
NaN == [kind |-> "nan"]
Inf == [kind |-> "inf"]
Num(n, d) == [kind |-> "num", num |-> n, den |-> d]
Finite == [kind |-> "finite"]
Absent == [kind |-> "absent"]

RECURSIVE SumFrom(_, _, _)
SumFrom(s, a, b) == IF a > b THEN 0 ELSE s[a] + SumFrom(s, a + 1, b)

\* series.rolling(window=w).mean().iloc[-1]: NaN until the window is full.
RollingMean(s, w) ==
    IF Len(s) < w THEN NaN ELSE Num(SumFrom(s, Len(s) - w + 1, Len(s)), w)

\* The last value of a rolling statistic over a column with `lead` leading
\* NaN (pct_change has one): NaN until w values are in the window.
RollingLast(n, w, lead) == IF n < w + lead THEN NaN ELSE Finite

\* delta.where(delta > 0, 0) and -delta.where(delta < 0, 0) of
\* delta = Close.diff(): the leading NaN of diff fails both tests and
\* becomes 0.
Gain(s) == [i \in 1..Len(s) |-> IF i > 1 /\ s[i] - s[i-1] > 0
                                THEN s[i] - s[i-1] ELSE 0]
Loss(s) == [i \in 1..Len(s) |-> IF i > 1 /\ s[i] - s[i-1] < 0
                                THEN s[i-1] - s[i] ELSE 0]

\* Division of two non-negative floats: x/0 is inf, 0/0 is NaN, and no
\* exception is raised.
FloatDiv(a, b) ==
    IF a.kind # "num" \/ b.kind # "num" THEN NaN
    ELSE IF b.num = 0 THEN (IF a.num = 0 THEN NaN ELSE Inf)
    ELSE Num(a.num * b.den, a.den * b.num)

\* 100 - (100 / (1 + rs))
RsiOf(rs) ==
    IF rs.kind = "nan" THEN NaN
    ELSE IF rs.kind = "inf" THEN Num(100, 1)
    ELSE Num(100 * rs.num, rs.num + rs.den)

\* x > k and x < k of a float: both False for NaN.
FloatGreater(x, k) == x.kind = "num" /\ x.num > k * x.den
FloatLess(x, k) == x.kind = "num" /\ x.num < k * x.den

Rsi(s) == RsiOf(FloatDiv(RollingMean(Gain(s), 14), RollingMean(Loss(s), 14)))

RsiSignal(rsi) ==
    IF FloatGreater(rsi, 70) THEN "overbought"
    ELSE IF FloatLess(rsi, 30) THEN "oversold" ELSE "neutral"

\* 'bullish' if Close[-1] > ma else 'bearish'
MaTrend(s, ma) == IF s[Len(s)] * ma.den > ma.num THEN "bullish" ELSE "bearish"

\* (current_price - price_5d_ago) / price_5d_ago * 100
Momentum(s) ==
    FloatDiv(Num((s[Len(s)] - s[Len(s) - 4]) * 100, 1), Num(s[Len(s) - 4], 1))

\* The dict returned for a non-empty frame of closes s. Only the moving
\* averages, the RSI and the momentum are behind a length test.
_calculate_technical_indicators(s) ==
    LET n == Len(s) IN
    [bars |-> n,
     ma20 |-> IF n >= 20 THEN RollingMean(s, 20) ELSE Absent,
     ma20_trend |-> IF n >= 20 THEN MaTrend(s, RollingMean(s, 20)) ELSE "absent",
     ma10 |-> IF n >= 10 THEN RollingMean(s, 10) ELSE Absent,
     ma10_trend |-> IF n >= 10 THEN MaTrend(s, RollingMean(s, 10)) ELSE "absent",
     ma5 |-> IF n >= 5 THEN RollingMean(s, 5) ELSE Absent,
     ma5_trend |-> IF n >= 5 THEN MaTrend(s, RollingMean(s, 5)) ELSE "absent",
     rsi |-> IF n >= 14 THEN Rsi(s) ELSE Absent,
     rsi_signal |-> IF n >= 14 THEN RsiSignal(Rsi(s)) ELSE "absent",
     volume_ratio |-> RollingLast(n, 10, 0),
     momentum_5d |-> IF n >= 5 THEN Momentum(s) ELSE Absent,
     volatility |-> RollingLast(n, 10, 1),
     resistance_level |-> RollingLast(n, 20, 0),
     support_level |-> RollingLast(n, 20, 0)]

\* The context without indicators: no series was obtained.
NoIndicators ==
    [bars |-> 0,
     ma20 |-> Absent, ma20_trend |-> "absent", ma10 |-> Absent,
     ma10_trend |-> "absent", ma5 |-> Absent, ma5_trend |-> "absent",
     rsi |-> Absent, rsi_signal |-> "absent", volume_ratio |-> Absent,
     momentum_5d |-> Absent, volatility |-> Absent,
     resistance_level |-> Absent, support_level |-> Absent]

\* _prepare_context: the indicators are computed when the series is there.
_prepare_context(historical_data) ==
    IF historical_data = None THEN NoIndicators
    ELSE _calculate_technical_indicators(historical_data.closes)

\* /stockadvice resumed with the series or None: get_stock_advice builds the
\* prompt and sends _get_groq_response to the executor.
AdviceGotHistory(t) ==
    /\ running = t
    /\ cmd[t].name = "advice" /\ cmd[t].pc = "hist"
    /\ calls[t].pc = "ret"
    /\ cmd' = [cmd EXCEPT ![t].pc = "ai",
                           ![t].historical_data = calls[t].result,
                           ![t].context = _prepare_context(calls[t].result)]
    /\ calls' = [calls EXCEPT ![t] = IdleCall]
    /\ running' = "none"
    /\ UNCHANGED <<now, advances, cache, ncalls, fetches,
                   tracked_stocks, last_prices, saved, mon, ncmds, trail>>

\* What the completion request does: returns a text of len characters
\* (an empty one when len is 0), or raises an exception whose str has len
\* characters.
AiOutcomes == {[kind |-> "text", len |-> 1], [kind |-> "text", len |-> 0],
               [kind |-> "raise", len |-> 0]}

\* The length of what get_stock_advice returns: the text of the completion,
\* or "Failed to generate AI advice: " and the str of the exception.
AdviceLength(a) == IF a.kind = "raise" THEN 32 + a.len ELSE a.len

Min(x, y) == IF x < y THEN x ELSE y

\* The lengths of the contents of the follow-up messages of the while loop
\* over remaining_advice: each is the chunk between two code fences of
\* three backticks.
RECURSIVE Chunks(_)
Chunks(remaining) ==
    IF remaining <= 0 THEN <<>>
    ELSE <<3 + Min(remaining, 2000) + 3>> \o Chunks(remaining - Min(remaining, 2000))

\* The length of the embed description advice[:4000] and the follow-up
\* messages after the embed.
AdviceMessages(len) ==
    [description |-> Min(len, 4000),
     followups |-> IF len > 4000 THEN Chunks(len - 4000) ELSE <<>>]

\* The executor future of the completion completes: the advice goes out in
\* an embed (the error text when the request raised) followed by the
\* chunks of a long advice, or "could not generate advice" for an empty
\* text. The sends of the loop suspend the command but touch no state of
\* the bot.
AdviceReturned(t, a) ==
    LET len == AdviceLength(a)
        reply == IF len = 0 THEN "no_advice"
                 ELSE IF a.kind = "raise" THEN "advice_error" ELSE "advice"
        out == IF len = 0 THEN AdviceMessages(0) ELSE AdviceMessages(len)
    IN
    /\ running = "none"
    /\ cmd[t].name = "advice" /\ cmd[t].pc = "ai"
    /\ cmd' = [cmd EXCEPT ![t] = [IdleCmd EXCEPT !.reply = reply,
                                                 !.description = out.description,
                                                 !.followups = out.followups]]
    /\ calls' = [calls EXCEPT ![t] = IdleCall]
    /\ running' = "none"
    /\ UNCHANGED <<now, advances, cache, ncalls, fetches,
                   tracked_stocks, last_prices, saved, mon, ncmds, trail>>

DataInit ==
    /\ now = 0
    /\ advances = 0
    /\ cache = [m \in Managers |-> [k \in Keys |-> NoEntry]]
    /\ calls = [t \in Tasks |-> IdleCall]
    /\ ncalls = 0
    /\ fetches = [m \in Managers |-> [k \in Keys |-> 0]]
    /\ running = "none"

Init ==
    /\ DataInit
    /\ tracked_stocks = <<>>
    /\ last_prices = [s \in Symbols |-> NoPrice]
    /\ saved = Document(<<>>)
    /\ mon = IdleMon
    /\ cmd = [t \in Users |-> IdleCmd]
    /\ ncmds = 0
    /\ trail = <<>>

\* The cache under two callers of one symbol: each provider either fails or
\* answers with one quote, and the clock runs past the TTL and past a day.
YfCoarse == {[kind |-> "raise"], [kind |-> "bars", closes |-> <<100, 103>>]}
AvCoarse ==
    {[kind |-> "raise"],
     [kind |-> "quote", code |-> 200, price |-> 103, prev |-> 100,
      change |-> 3, pct |-> 3]}

Next ==
    \/ \E t \in Users, kind \in Kinds : Call(t, kind, "A")
    \/ \E t \in Users, o \in YfCoarse : PrimaryReturn(t, o)
    \/ \E t \in Users, o \in AvCoarse : FallbackReturn(t, o)
    \/ \E t \in Users, o \in HistOutcomes : HistoryReturn(t, o)
    \/ \E t \in Users : Return(t)
    \/ \E d \in Deltas : Advance(d)

Spec == Init /\ [][Next]_vars

\* The adapter under every provider outcome: one caller, and the clock steps
\* by the TTL.
NextAdapter ==
    \/ \E kind \in Kinds : Call("u1", kind, "A")
    \/ \E o \in YfOutcomes : PrimaryReturn("u1", o)
    \/ \E o \in AvOutcomes : FallbackReturn("u1", o)
    \/ \E o \in HistOutcomes : HistoryReturn("u1", o)
    \/ Return("u1")
    \/ Advance(cache_duration)

SpecAdapter == Init /\ [][NextAdapter]_vars

\* The bot: the monitor loop and /track, /untrack of one user on one event
\* loop. StockBot.__init__ loads the tracked list from the document.
InitialLists == {<<>>, <<"A">>, <<"A", "B">>}
MonPrices == {0, 100, 102, 103}
YfMonitor ==
    {[kind |-> "empty"]} \cup {[kind |-> "bars", closes |-> <<p>>] : p \in MonPrices}
AvMonitor == {[kind |-> "raise"]}
SendMonitor == {[c \in ChannelIds |-> x] : x \in SendOutcomes}

InitMonitor ==
    /\ DataInit
    /\ tracked_stocks \in InitialLists
    /\ last_prices = [s \in Symbols |-> NoPrice]
    /\ saved = Document(tracked_stocks)
    /\ mon = IdleMon
    /\ cmd = [t \in Users |-> IdleCmd]
    /\ ncmds = 0
    /\ trail = <<>>

NextMonitor ==
    \/ MonitorTick
    \/ MonitorNext
    \/ MonitorGotQuote
    \/ \E out \in SendMonitor : MonitorAlertReturn(out)
    \/ MonitorSleep
    \/ \E o \in YfMonitor : PrimaryReturn("mon", o) \/ PrimaryReturn("u1", o)
    \/ \E o \in AvMonitor : FallbackReturn("mon", o) \/ FallbackReturn("u1", o)
    \/ \E typed \in TypedSymbols : TrackStart("u1", typed)
    \/ TrackGotQuote("u1", "ok")
    \/ \E typed \in TypedSymbols : Untrack("u1", typed, "ok")

SpecMonitor == InitMonitor /\ [][NextMonitor]_vars

\* /track and /untrack of two users on one event loop, each write of the
\* document succeeding or failing; the monitor is left out.
YfTrack == {[kind |-> "empty"], [kind |-> "bars", closes |-> <<100>>]}

NextTrack ==
    \/ \E t \in Users, typed \in TypedSymbols : TrackStart(t, typed)
    \/ \E t \in Users, w \in WriteOutcomes : TrackGotQuote(t, w)
    \/ \E t \in Users, typed \in TypedSymbols, w \in WriteOutcomes :
           Untrack(t, typed, w)
    \/ \E t \in Users, o \in YfTrack : PrimaryReturn(t, o)
    \/ \E t \in Users, o \in AvMonitor : FallbackReturn(t, o)

SpecTrack == InitMonitor /\ [][NextTrack]_vars

\* The bot with every command that waits: the monitor over [A] with a steady
\* price, /price and /stockadvice of two users, /track and /untrack of one.
HistCommands == {[kind |-> "empty"], [kind |-> "bars", closes |-> <<100, 103>>]}

InitCommands ==
    /\ DataInit
    /\ tracked_stocks = <<"A">>
    /\ last_prices = [s \in Symbols |-> NoPrice]
    /\ saved = Document(tracked_stocks)
    /\ mon = IdleMon
    /\ cmd = [t \in Users |-> IdleCmd]
    /\ ncmds = 0
    /\ trail = <<>>

NextCommands ==
    \/ MonitorTick
    \/ MonitorNext
    \/ MonitorGotQuote
    \/ MonitorSleep
    \/ \E t \in Tasks, o \in YfTrack : PrimaryReturn(t, o)
    \/ \E t \in Tasks, o \in AvMonitor : FallbackReturn(t, o)
    \/ \E t \in Users, o \in HistCommands : HistoryReturn(t, o)
    \/ \E t \in Users : PriceStart(t, "A")
    \/ \E t \in Users : PriceGotQuote(t)
    \/ \E t \in Users : PriceGotHistory(t)
    \/ \E t \in Users, r \in RenderOutcomes : PriceRendered(t, r)
    \/ \E t \in Users : AdviceStart(t, "A")
    \/ \E t \in Users : AdviceGotQuote(t)
    \/ \E t \in Users : AdviceGotHistory(t)
    \/ \E t \in Users, a \in AiOutcomes : AdviceReturned(t, a)
    \/ TrackStart("u1", "B")
    \/ TrackGotQuote("u1", "ok")
    \/ Untrack("u1", "A", "ok")

SpecCommands == InitCommands /\ [][NextCommands]_vars

\* ---------------------------------------------------------------------
\* /stockadvice alone, over series of every length up to MaxBars and
\* advice texts around the limits of the embed and of a message.
\* ---------------------------------------------------------------------

MaxBars == 21

Shapes == {"rising", "falling", "flat", "zigzag", "recovering"}

\* The closes of a series of n daily bars.
Series(shape, n) ==
    [i \in 1..n |->
        CASE shape = "rising" -> 100 + i
          [] shape = "falling" -> 200 - i
          [] shape = "flat" -> 100
          [] shape = "zigzag" -> 100 + (i % 2)
          [] shape = "recovering" -> IF i <= 3 THEN 110 - i ELSE 104 + i]

HistAdvice ==
    {[kind |-> "empty"], [kind |-> "raise"]}
    \cup {[kind |-> "bars", closes |-> Series(sh, n)] : sh \in Shapes, n \in 1..MaxBars}

AdviceLengths == {0, 1, 3999, 4000, 4001, 5999, 6000, 6001, 8001}

AiAdvice ==
    {[kind |-> "text", len |-> l] : l \in AdviceLengths}
    \cup {[kind |-> "raise", len |-> l] : l \in {0, 4000}}

NextAdvice ==
    \/ AdviceStart("u1", "a")
    \/ \E o \in YfTrack : PrimaryReturn("u1", o)
    \/ \E o \in AvMonitor : FallbackReturn("u1", o)
    \/ AdviceGotQuote("u1")
    \/ \E o \in HistAdvice : HistoryReturn("u1", o)
    \/ AdviceGotHistory("u1")
    \/ \E a \in AiAdvice : AdviceReturned("u1", a)

SpecAdvice == InitCommands /\ [][NextAdvice]_vars

\* ---------------------------------------------------------------------
\* PersistenceManager.add_tracked_stock / remove_tracked_stock on the
\* persisted document, for symbols in either letter case.
\* ---------------------------------------------------------------------

\* What open(file, 'r') + json.load can do: read the document, or raise.
ReadOutcomes == {"ok", "fail"}

\* PersistenceManager.load_tracked_stocks: the stocks of the document, []
\* under `except Exception`.
load_tracked_stocks(doc, rd) == IF rd = "ok" THEN doc.stocks ELSE <<>>

\* The bool save_tracked_stocks returns.
SaveResult(w) == IF w = "ok" THEN "True" ELSE "False"

\* One call of add_tracked_stock / remove_tracked_stock: its argument, the
\* persisted list before it, what the read and the write did, and the bool
\* returned.
PersistenceEntry(name, symbol, before, rd, w, reply) ==
    [name |-> name, sym |-> symbol, before |-> before, rd |-> rd, w |-> w,
     reply |-> reply]

add_tracked_stock(symbol, rd, w) ==
    LET stocks == load_tracked_stocks(saved, rd) IN
    /\ ncmds < MaxCommands
    /\ IF ~Contains(stocks, symbol)
       THEN /\ saved' = save_tracked_stocks(saved, Append(stocks, Upper(symbol)), w)
            /\ trail' = Append(trail, PersistenceEntry("add", symbol, saved.stocks,
                                                       rd, w, SaveResult(w)))
       ELSE /\ saved' = saved
            /\ trail' = Append(trail, PersistenceEntry("add", symbol, saved.stocks,
                                                       rd, "none", "True"))
    /\ ncmds' = ncmds + 1
    /\ UNCHANGED <<dataVars, tracked_stocks, last_prices, mon, cmd>>

remove_tracked_stock(symbol, rd, w) ==
    LET stocks == load_tracked_stocks(saved, rd) IN
    /\ ncmds < MaxCommands
    /\ IF Contains(stocks, Upper(symbol))
       THEN /\ saved' = save_tracked_stocks(saved, ListRemove(stocks, Upper(symbol)), w)
            /\ trail' = Append(trail, PersistenceEntry("remove", symbol, saved.stocks,
                                                       rd, w, SaveResult(w)))
       ELSE /\ saved' = saved
            /\ trail' = Append(trail, PersistenceEntry("remove", symbol, saved.stocks,
                                                       rd, "none", "True"))
    /\ ncmds' = ncmds + 1
    /\ UNCHANGED <<dataVars, tracked_stocks, last_prices, mon, cmd>>

NextPersistence ==
    \/ \E symbol \in TypedSymbols, rd \in ReadOutcomes, w \in WriteOutcomes :
           add_tracked_stock(symbol, rd, w)
    \/ \E symbol \in TypedSymbols, rd \in ReadOutcomes, w \in WriteOutcomes :
           remove_tracked_stock(symbol, rd, w)

SpecPersistence == InitMonitor /\ [][NextPersistence]_vars

\* ---------------------------------------------------------------------
\* send_price_alert alone: one alert event for either symbol, with every
\* combination of what the sends to the four channels do.
\* ---------------------------------------------------------------------

MaxAlerts == 1

SendAll == [ChannelIds -> SendOutcomes]

\* One alert event: its symbol, what each channel.send would do, the sends
\* tried and the channels that got the message.
AlertEntry(symbol, out, r) ==
    [name |-> "alert", sym |-> symbol, out |-> out,
     sent |-> r.sent, tried |-> r.tried, raised |-> r.raised]

DeliverAlert(symbol, out) ==
    /\ Len(trail) < MaxAlerts
    /\ trail' = Append(trail, AlertEntry(symbol, out, send_price_alert(symbol, out)))
    /\ UNCHANGED <<dataVars, tracked_stocks, last_prices, saved, mon, cmd, ncmds>>

NextAlert == \E symbol \in Symbols, out \in SendAll : DeliverAlert(symbol, out)

SpecAlert == InitMonitor /\ [][NextAlert]_vars

\* ---------------------------------------------------------------------
\* The standalone program's StockDataManager next to the modular one: the
\* same requests go to both, and a request of both to the provider gets
\* the same reply.
\* ---------------------------------------------------------------------

\* The tasks that call the modular and the standalone manager.
Modular == "u1"
Standalone == "u2"

\* standalone get_stock_data / get_historical_data from the call to the
\* first await or, on a cache hit, to the return: the history is requested
\* without a look at the cache.
standalone_StartCall(kind, sym) ==
    LET m == "standalone"
        key == <<sym, kind>>
        e == cache[m][key]
        base == [IdleCall EXCEPT !.mgr = m, !.kind = kind, !.sym = sym,
                     !.hadEntry = e.present,
                     !.startAge = IF e.present THEN now - e.timestamp ELSE 0,
                     !.startData = e.data]
    IN  IF kind = "current" /\ _is_cache_valid(cache[m], key, now)
        THEN [base EXCEPT !.pc = "ret", !.result = cache[m][key].data]
        ELSE IF kind = "current"
        THEN [base EXCEPT !.pc = "primary", !.primary = "pending"]
        ELSE [base EXCEPT !.pc = "hist", !.primary = "pending"]

\* standalone get_stock_data resumed with the provider's reply o: the quote
\* is stored and returned, anything else is None.
standalone_AfterPrimary(c, o) ==
    LET data == ExceptReturnNone(_get_yfinance_data(c.sym, o))
        c1 == [c EXCEPT !.primaryReply = o]
    IN
    IF data # None
    THEN [call |-> [c1 EXCEPT !.pc = "ret", !.primary = "quote", !.result = data],
          store |-> TRUE]
    ELSE [call |-> [c1 EXCEPT !.pc = "ret", !.primary = "nodata", !.result = None],
          store |-> FALSE]

\* standalone get_historical_data resumed with the provider's reply o:
\* the series is returned and not stored.
standalone_AfterHistory(c, o) ==
    LET hist == ExceptReturnNone(HistoricalBody(c.sym, o))
        c1 == [c EXCEPT !.primaryReply = o]
    IN
    [call |-> [c1 EXCEPT !.pc = "ret",
                         !.primary = IF hist # None THEN "quote" ELSE "nodata",
                         !.result = hist],
     store |-> FALSE]

\* The frames, the caches and the request counts after reply r == [call,
\* store] reached task t.
WithReply(cs, t, r) == [cs EXCEPT ![t] = r.call]
WithStore(ch, r) ==
    IF r.store
    THEN [ch EXCEPT ![r.call.mgr] = _update_cache(@, CacheKey(r.call), r.call.result, now)]
    ELSE ch
WithRequest(f, c) ==
    IF c.pc \in {"primary", "fallback", "hist"}
    THEN [f EXCEPT ![c.mgr][CacheKey(c)] = @ + 1]
    ELSE f

\* The same request is made of both managers.
PairCall(kind, sym) ==
    LET c1 == StartCall("bot", kind, sym)
        c2 == standalone_StartCall(kind, sym)
    IN
    /\ running = "none"
    /\ calls[Modular].pc = "idle" /\ calls[Standalone].pc = "idle"
    /\ ncalls < MaxCalls
    /\ calls' = [calls EXCEPT ![Modular] = c1, ![Standalone] = c2]
    /\ fetches' = WithRequest(WithRequest(fetches, c1), c2)
    /\ ncalls' = ncalls + 1
    /\ UNCHANGED <<now, advances, cache, running, botVars>>

\* The primary provider answers o to every manager waiting for it.
PairPrimaryReturn(o) ==
    LET r1 == IF calls[Modular].pc = "primary"
              THEN AfterPrimary(calls[Modular], o)
              ELSE [call |-> calls[Modular], store |-> FALSE]
        r2 == IF calls[Standalone].pc = "primary"
              THEN standalone_AfterPrimary(calls[Standalone], o)
              ELSE [call |-> calls[Standalone], store |-> FALSE]
    IN
    /\ running = "none"
    /\ calls[Modular].pc = "primary" \/ calls[Standalone].pc = "primary"
    /\ calls' = WithReply(WithReply(calls, Modular, r1), Standalone, r2)
    /\ cache' = WithStore(WithStore(cache, r1), r2)
    /\ fetches' = IF calls[Modular].pc = "primary"
                  THEN WithRequest(fetches, r1.call) ELSE fetches
    /\ UNCHANGED <<now, advances, ncalls, running, botVars>>

\* The fallback provider answers the modular manager.
ModularFallbackReturn(o) ==
    LET r1 == AfterFallback(calls[Modular], o) IN
    /\ running = "none"
    /\ calls[Modular].pc = "fallback"
    /\ calls' = WithReply(calls, Modular, r1)
    /\ cache' = WithStore(cache, r1)
    /\ UNCHANGED <<now, advances, ncalls, fetches, running, botVars>>

\* The history request is answered with o to every manager waiting for it.
PairHistoryReturn(o) ==
    LET r1 == IF calls[Modular].pc = "hist"
              THEN AfterHistory(calls[Modular], o)
              ELSE [call |-> calls[Modular], store |-> FALSE]
        r2 == IF calls[Standalone].pc = "hist"
              THEN standalone_AfterHistory(calls[Standalone], o)
              ELSE [call |-> calls[Standalone], store |-> FALSE]
    IN
    /\ running = "none"
    /\ calls[Modular].pc = "hist" \/ calls[Standalone].pc = "hist"
    /\ calls' = WithReply(WithReply(calls, Modular, r1), Standalone, r2)
    /\ cache' = WithStore(WithStore(cache, r1), r2)
    /\ UNCHANGED <<now, advances, ncalls, fetches, running, botVars>>

\* Both callers have their value and end.
PairReturn ==
    /\ running = "none"
    /\ calls[Modular].pc = "ret" /\ calls[Standalone].pc = "ret"
    /\ calls' = [calls EXCEPT ![Modular] = IdleCall, ![Standalone] = IdleCall]
    /\ UNCHANGED <<now, advances, cache, ncalls, fetches, running, botVars>>

NextStandalone ==
    \/ \E kind \in Kinds : PairCall(kind, "A")
    \/ \E o \in YfCoarse : PairPrimaryReturn(o)
    \/ \E o \in AvCoarse : ModularFallbackReturn(o)
    \/ \E o \in HistOutcomes : PairHistoryReturn(o)
    \/ PairReturn
    \/ \E d \in Deltas : Advance(d)

SpecStandalone == Init /\ [][NextStandalone]_vars

\* ------------------------------------------------------------------ claims
Frames == {calls[t] : t \in Tasks}
Started(c) == c.pc # "idle"
Attempted(c) == c.primary # "none" \/ c.fallback # "none"

\* C1: a call that finds an entry younger than the 60-second TTL returns
\* that entry's payload and sends no request to any provider.
C1_CacheHit ==
    \A c \in Frames :
        (Started(c) /\ c.hadEntry /\ c.startAge < 60)
            => (c.pc = "ret" /\ c.result = c.startData /\ ~Attempted(c))

\* Two calls for one key one second apart, the second a hit, one request sent.
C1_Witness ==
    \E c \in Frames :
        /\ c.pc = "ret" /\ c.hadEntry /\ c.startAge = 1
        /\ c.result = c.startData /\ c.result.kind = "quote"
        /\ ncalls = 2
        /\ fetches["bot"][CacheKey(c)] = 1

\* C2: a call that finds an entry of age >= 60 s, however old, sends a
\* request upstream and does not return the stored payload as a hit.
C2_ExpiredRefetched ==
    \A c \in Frames :
        (Started(c) /\ c.hadEntry /\ c.startAge >= 60) => Attempted(c)

\* C3: a call that found an expired entry and whose every provider request
\* failed returns None and leaves the cache as it is.
C3_FailedRefetch ==
    [][\A t \in Tasks :
          ( /\ calls[t].pc \in {"primary", "fallback", "hist"}
            /\ calls[t].hadEntry /\ calls[t].startAge >= 60
            /\ calls'[t].pc = "ret"
            /\ calls'[t].primary # "quote" /\ calls'[t].fallback # "quote" )
          => (calls'[t].result = None /\ cache' = cache)]_vars

\* Both providers failed on an expired entry: None, the old entry still there.
C3_Witness ==
    \E c \in Frames :
        /\ c.pc = "ret" /\ c.kind = "current"
        /\ c.hadEntry /\ c.startAge >= 60
        /\ c.primary = "nodata" /\ c.fallback = "nodata"
        /\ c.result = None
        /\ cache[c.mgr][CacheKey(c)].present
        /\ cache[c.mgr][CacheKey(c)].data = c.startData
        /\ c.startData.kind = "quote"

\* C4: the fallback is requested only after the primary's request of the same
\* call came back without a quote; a call in which the primary gave a quote
\* returns it, tagged yfinance, and never asks the fallback.
C4_ProviderOrder ==
    \A c \in Frames :
        /\ (c.kind = "current" /\ c.fallback # "none") => c.primary = "nodata"
        /\ (c.kind = "current" /\ c.pc = "ret" /\ c.primary = "quote")
              => (c.result.kind = "quote" /\ c.result.source = "yfinance")

\* The fallback answered after the primary failed.
C4_Witness ==
    \E c \in Frames :
        /\ c.pc = "ret" /\ c.primary = "nodata" /\ c.fallback = "quote"
        /\ c.result.source = "alpha_vantage"

\* The previous close the primary's bars give: the second-last close, or the
\* only one.
PreviousCloseOf(o) ==
    IF Len(o.closes) > 1 THEN o.closes[Len(o.closes) - 1]
    ELSE o.closes[Len(o.closes)]

Replied(c) == c.kind = "current" /\ c.primary \in {"quote", "nodata"}

FellThrough(c) ==
    /\ c.fallback # "none"
    /\ (c.pc = "ret" /\ c.fallback = "quote")
          => (c.result.kind = "quote" /\ c.result.source = "alpha_vantage")

\* C5 as claimed: the primary raising, returning empty data, or giving a
\* previous close of zero each make the call fall through to the fallback.
C5_AsClaimed ==
    \A c \in Frames :
        ( /\ Replied(c)
          /\ \/ c.primaryReply.kind \in {"raise", "empty"}
             \/ /\ c.primaryReply.kind = "bars"
                /\ PreviousCloseOf(c.primaryReply) = 0 )
        => FellThrough(c)

\* C5 as amended: the call falls through when the primary raises (also while
\* converting the rows) or returns empty data; bars with a previous close of
\* zero are returned as the primary's quote with change_percent 0.
C5_FallThrough ==
    \A c \in Frames :
        /\ (Replied(c) /\ c.primaryReply.kind \in {"raise", "empty", "malformed"})
              => FellThrough(c)
        /\ (Replied(c) /\ c.primaryReply.kind = "bars")
              => /\ c.fallback = "none"
                 /\ c.pc = "ret"
                 /\ c.result.source = "yfinance"
                 /\ PreviousCloseOf(c.primaryReply) = 0
                       => c.result.change_percent.num = 0

\* The primary raised and the fallback's quote came back.
C5_Witness ==
    \E c \in Frames :
        /\ c.pc = "ret" /\ c.primaryReply.kind = "raise"
        /\ c.fallback = "quote" /\ c.result.source = "alpha_vantage"

\* C6: whatever the providers do, a finished call holds a quote, a series or
\* None, never an exception; with both quote providers failed it holds None.
C6_NoException ==
    \A c \in Frames :
        c.pc = "ret" =>
            /\ c.result.kind \in {"quote", "hist", "none"}
            /\ (c.kind = "current" /\ c.primary = "nodata" /\ c.fallback = "nodata")
                  => c.result = None
            /\ (c.kind = "hist" /\ c.primary = "nodata") => c.result = None

\* The history request raised and the call returned None.
C6_Witness ==
    \E c \in Frames :
        /\ c.pc = "ret" /\ c.kind = "hist"
        /\ c.primaryReply.kind = "raise" /\ c.result = None

\* The Quote invariant of the data model.
QuoteInvariant(q) ==
    /\ q.change = q.current_price - q.previous_close
    /\ IF q.previous_close # 0
       THEN RatEq(q.change_percent, Rat(q.change * 100, q.previous_close))
       ELSE q.change_percent.num = 0

\* C7: every quote get_stock_data returns satisfies the Quote invariant.
C7_QuoteInvariant ==
    \A c \in Frames :
        (c.kind = "current" /\ c.pc = "ret" /\ c.result.kind = "quote")
            => QuoteInvariant(c.result)

\* C8: in a finished tick over an unchanged list, a symbol whose fetch gave
\* no data is followed by the evaluation of the next tracked symbol, whose
\* baseline is its price once its quote is in and its alert, if any, is out.
C8_FetchFailureIsolated ==
    (mon.pc = "done" /\ ~mon.changed) =>
        \A k \in 1..Len(mon.log) :
            (~mon.log[k].got /\ k < Len(mon.list0)) =>
                /\ Len(mon.log) >= k + 1
                /\ mon.log[k + 1].sym = mon.list0[k + 1]
                /\ (mon.log[k + 1].got /\ ~mon.log[k + 1].raised)
                      => last_prices[mon.list0[k + 1]] = Price(mon.log[k + 1].price)

\* A tick over [A, B]: no data for A, B's price recorded.
C8_Witness ==
    /\ mon.pc = "done" /\ ~mon.changed
    /\ mon.list0 = <<"A", "B">>
    /\ Len(mon.log) = 2
    /\ ~mon.log[1].got
    /\ mon.log[2].got /\ mon.log[2].sym = "B"
    /\ last_prices["B"] = Price(mon.log[2].price)
    /\ ~last_prices["A"].present

\* C9: in a finished tick over an unchanged list, a symbol whose step failed
\* (no data, or its alert's delivery raised) is followed by the evaluation of
\* every tracked symbol after it.
C9_PerSymbolIsolation ==
    (mon.pc = "done" /\ ~mon.changed) =>
        \A k \in 1..Len(mon.log) :
            (~mon.log[k].got \/ mon.log[k].raised) =>
                /\ Len(mon.log) = Len(mon.list0)
                /\ \A j \in (k + 1)..Len(mon.list0) : mon.log[j].sym = mon.list0[j]

\* C10: for every symbol a tick got a quote for while its baseline was not
\* zero, the tick raised an alert exactly when the price moved by 2% or more
\* of the baseline, up or down.
C10_AlertFiring ==
    \A k \in 1..Len(mon.log) :
        LET e == mon.log[k] IN
        (e.got /\ e.base # 0) =>
            (e.alerted <=> Abs(e.price - e.base) * 100 >= 2 * Abs(e.base))

\* Baseline 100, price 103: the alert went out and the baseline moved.
C10_Witness ==
    \E k \in 1..Len(mon.log) :
        /\ mon.log[k].got /\ mon.log[k].base = 100 /\ mon.log[k].price = 103
        /\ mon.log[k].alerted /\ mon.log[k].updated
        /\ last_prices[mon.log[k].sym] = Price(103)

\* C11: when the tick is done with a symbol it got a quote for (it is back at
\* the `for`, or it has ended), that symbol's baseline is the quote's price,
\* whether or not an alert was raised and whether or not its delivery worked.
C11_BaselineUpdated ==
    (mon.pc \in {"loop", "done"} /\ Len(mon.log) > 0) =>
        LET e == mon.log[Len(mon.log)] IN
        e.got => last_prices[e.sym] = Price(e.price)

\* C12: when the tick gets a quote for a symbol that has no baseline yet, the
\* baseline it compares with is the quote's own price, the change is zero,
\* no alert is raised and the price becomes the baseline.
C12_FirstObservation ==
    [][( /\ mon.pc = "quote" /\ mon'.pc # "quote"
         /\ calls["mon"].pc = "ret" /\ calls["mon"].result # None
         /\ ~last_prices[mon.sym].present )
       => LET e == mon'.log[Len(mon'.log)] IN
          /\ mon'.pc = "loop"
          /\ e.got /\ e.sym = mon.sym
          /\ e.price = calls["mon"].result.current_price
          /\ e.base = e.price
          /\ (e.base # 0) => ChangePercent(e.price, e.base).num = 0
          /\ ~e.alerted
          /\ last_prices'[mon.sym] = Price(e.price)]_vars

\* The first tick of the process saw A at 103: no alert, baseline 103.
C12_Witness ==
    /\ advances = 0 /\ mon.pc = "loop"
    /\ Len(mon.log) = 1
    /\ mon.log[1].got /\ mon.log[1].sym = "A"
    /\ mon.log[1].price = 103 /\ mon.log[1].base = 103
    /\ ~mon.log[1].alerted /\ mon.log[1].updated
    /\ last_prices["A"] = Price(103)

\* How many times the tick called get_stock_data for symbol s.
Requested(s) == Cardinality({k \in 1..Len(mon.log) : mon.log[k].sym = s})

\* C13: in a tick that ran to the end of its loop, every symbol that was in
\* the tracked list when the tick started and was not removed during it had
\* its quote requested exactly once, whatever /track and /untrack did to
\* other symbols while the tick was suspended.
C13_TickCoverage ==
    (mon.pc = "done" /\ mon.status = "completed") =>
        \A s \in Symbols :
            (Contains(mon.list0, s) /\ s \notin mon.removed) => Requested(s) = 1

\* C15: a call that finds its key absent or expired sends its own request
\* upstream, whether or not another call for the same key is already waiting
\* for one, and every call returns what its own request produced.
C15_NoSingleFlight ==
    \A c \in Frames :
        /\ ( /\ Started(c)
             /\ ~c.hadEntry \/ TimedeltaSeconds(c.startAge) >= cache_duration )
              => Attempted(c)
        /\ (c.pc = "ret" /\ c.kind = "current" /\ c.primary = "quote")
              => c.result = _get_yfinance_data(c.sym, c.primaryReply)
        /\ (c.pc = "ret" /\ c.kind = "hist" /\ c.primary = "quote")
              => c.result = HistoricalBody(c.sym, c.primaryReply)
        /\ (c.pc = "ret" /\ c.fallback = "quote")
              => (c.result.kind = "quote" /\ c.result.source = "alpha_vantage")

\* Two calls for A's quote, both started on the cold key within one second:
\* two requests went upstream, the first call has returned its quote and
\* the second is returning its own.
C15_Witness ==
    \E t \in Users :
        LET c == calls[t] IN
        /\ c.pc = "ret" /\ c.kind = "current" /\ ~c.hadEntry
        /\ c.primary = "quote" /\ c.result.kind = "quote"
        /\ \A u \in Tasks \ {t} : calls[u].pc = "idle"
        /\ ncalls = 2 /\ now = 0
        /\ fetches["bot"][CacheKey(c)] = 2
        /\ cache["bot"][CacheKey(c)].present

\* The frame of the step that wrote cache entry (m, k), if any: a call of
\* manager m for key k that went from a pending request to its return.
Writers(m, k) ==
    {t \in Tasks : /\ calls[t].pc \in {"primary", "fallback", "hist"}
                   /\ calls[t].mgr = m /\ CacheKey(calls[t]) = k
                   /\ calls'[t].pc = "ret"}

\* C16 as claimed: an entry changes only in a step in which a fetch for its
\* key succeeded, and an entry that exists changes only when its age has
\* reached the TTL.
C16_AsClaimed ==
    [][\A m \in Managers, k \in Keys :
          cache'[m][k] # cache[m][k] =>
              /\ \E t \in Writers(m, k) :
                     calls'[t].result.kind \in {"quote", "hist"}
              /\ cache[m][k].present
                    => now - cache[m][k].timestamp >= cache_duration]_vars

\* C16 as amended: an entry changes only in the step in which a fetch for its
\* key succeeded, it is then written whole (that fetch's payload, stamped
\* with the time of the write), and the writing call is one that found the
\* entry absent or of age >= TTL when it started; the entry it replaces may
\* be one a concurrent call wrote meanwhile, still within its TTL.
C16_Lifecycle ==
    [][\A m \in Managers, k \in Keys :
          cache'[m][k] # cache[m][k] =>
              \E t \in Writers(m, k) :
                  /\ calls'[t].result.kind \in {"quote", "hist"}
                  /\ cache'[m][k] = [present |-> TRUE,
                                     data |-> calls'[t].result,
                                     timestamp |-> now]
                  /\ ~calls[t].hadEntry \/ calls[t].startAge >= cache_duration]_vars

\* An entry written at 0 and found at age 60 was replaced by the fetch of
\* the call that found it.
C16_Witness ==
    \E c \in Frames :
        /\ c.pc = "ret" /\ c.hadEntry /\ c.startAge = cache_duration
        /\ c.result.kind \in {"quote", "hist"}
        /\ c.startData.kind = c.result.kind
        /\ now = cache_duration
        /\ cache[c.mgr][CacheKey(c)] =
               [present |-> TRUE, data |-> c.result, timestamp |-> now]

\* C18: a get_historical_data call never asks the fallback provider; when
\* the provider's frame is empty or the request fails the call returns None,
\* never a series without rows; and every history entry in a cache is a
\* series with rows.
C18_HistoryPrimaryOnly ==
    /\ \A c \in Frames :
          (c.kind = "hist" /\ Started(c)) =>
              /\ c.fallback = "none"
              /\ (c.pc = "ret" /\ c.primary = "nodata") => c.result = None
              /\ (c.pc = "ret" /\ c.result # None)
                    => (c.result.kind = "hist" /\ Len(c.result.closes) > 0)
    /\ \A m \in Managers, s \in Symbols :
          cache[m][<<s, "hist">>].present =>
              /\ cache[m][<<s, "hist">>].data.kind = "hist"
              /\ Len(cache[m][<<s, "hist">>].data.closes) > 0

\* The provider's frame was empty: one request, None returned, nothing stored.
C18_Witness ==
    \E c \in Frames :
        /\ c.kind = "hist" /\ c.pc = "ret"
        /\ c.primaryReply.kind = "empty"
        /\ c.result = None /\ c.fallback = "none"
        /\ ~cache[c.mgr][CacheKey(c)].present
        /\ fetches[c.mgr][CacheKey(c)] = 1

\* C19: whatever threshold T the environment configures (2 when it sets
\* none), a tick raises an alert for a symbol with a non-zero baseline
\* exactly when the price moved by T percent of the baseline or more.
C19_ConfiguredThreshold ==
    \A env \in ThresholdEnv :
        LET T == PRICE_ALERT_THRESHOLD(env) IN
        \A k \in 1..Len(mon.log) :
            LET e == mon.log[k] IN
            (e.got /\ e.base # 0) =>
                (e.alerted <=> Abs(e.price - e.base) * 100 >= T * Abs(e.base))

\* The latest two changes of the list are /track S and then /untrack S.
RoundTrip(k) ==
    /\ k + 1 = Len(trail)
    /\ trail[k].name = "track" /\ trail[k + 1].name = "untrack"
    /\ trail[k].sym = trail[k + 1].sym
    /\ ~Contains(trail[k].before, trail[k].sym)

Waiting(t) ==
    \/ calls[t].pc \in {"primary", "fallback", "hist"}
    \/ t \in Users /\ cmd[t].pc \in {"render", "ai"}

\* C14: a task that waits for a quote or history fetch, a chart or an AI
\* completion does not hold the event loop, and while it waits every idle
\* user can start a command as soon as the loop is free (within the numbers
\* of commands and calls of one behaviour).
C14_NonBlocking ==
    \A t \in Tasks :
        Waiting(t) =>
            /\ running # t
            /\ \A u \in Users :
                  ( /\ running = "none"
                    /\ cmd[u].pc = "idle" /\ calls[u].pc = "idle"
                    /\ ncmds < MaxCommands /\ ncalls < MaxCalls )
                  => /\ ENABLED PriceStart(u, "A")
                     /\ ENABLED AdviceStart(u, "A")
                     /\ ENABLED TrackStart(u, "B")

\* The tick is still waiting for its first quote; meanwhile /track B of u1
\* fetched B's quote, appended B and ended, and /stockadvice of u2 has got as
\* far as waiting for the AI completion.
C14_Witness ==
    /\ mon.pc = "quote" /\ mon.i = 1 /\ calls["mon"].pc = "primary"
    /\ mon.list0 = <<"A">> /\ mon.changed
    /\ tracked_stocks = <<"A", "B">>
    /\ cmd["u1"].pc = "idle"
    /\ cmd["u2"].pc = "ai"
    /\ running = "none"

\* Task t enters get_historical_data in this step.
HistoryStarts(t) ==
    /\ ncalls' = ncalls + 1
    /\ calls'[t] # calls[t]
    /\ calls'[t].kind = "hist"

\* C17: a request for a symbol's historical series that starts while the
\* series is cached, less than the TTL old, by the chart path or by the
\* advice path is served from the cache and sends nothing upstream.
C17_OneHistoryCache ==
    [][\A t \in Users :
          ( /\ HistoryStarts(t)
            /\ \E m \in Managers :
                  LET e == cache[m][<<calls'[t].sym, "hist">>] IN
                  e.present /\ now - e.timestamp < cache_duration )
          => (calls'[t].pc = "ret" /\ fetches' = fetches)]_vars

\* The list a change of the trail made out of the list it found.
ListAfter(e) ==
    IF e.name = "track" THEN Append(e.before, e.sym)
    ELSE ListRemove(e.before, e.sym)

\* C21: a /track or /untrack whose write of the document failed tells its
\* caller that it failed, and the tracked list keeps the change.
C21_WriteFailureReported ==
    \A k \in 1..Len(trail) :
        trail[k].w = "fail" =>
            /\ trail[k].reply \notin {"added", "removed"}
            /\ k = Len(trail) => tracked_stocks = ListAfter(trail[k])

\* C22: an indicator is in the computed set only if the series has its
\* minimum length (MA(n): n bars, RSI: 14, volume ratio: 10, momentum: 5,
\* volatility: 11, support and resistance: 20) and is absent otherwise; a
\* 12-bar series has MA(5) and MA(10) and neither MA(20), RSI(14) nor
\* support and resistance.
C22_IndicatorOmission ==
    \A t \in Users :
        cmd[t].pc = "ai" =>
            LET c == cmd[t].context
                n == c.bars
            IN
            /\ c.ma5 # Absent => n >= 5
            /\ c.ma10 # Absent => n >= 10
            /\ c.ma20 # Absent => n >= 20
            /\ c.rsi # Absent => n >= 14
            /\ c.volume_ratio # Absent => n >= 10
            /\ c.momentum_5d # Absent => n >= 5
            /\ c.volatility # Absent => n >= 11
            /\ c.resistance_level # Absent => n >= 20
            /\ c.support_level # Absent => n >= 20
            /\ n = 12 => /\ c.ma5 # Absent /\ c.ma10 # Absent
                         /\ c.ma20 = Absent /\ c.rsi = Absent
                         /\ c.resistance_level = Absent /\ c.support_level = Absent

\* The series /stockadvice of task t holds has at least 14 bars and no
\* loss among the 14 deltas of the RSI window.
ZeroLoss(t) ==
    /\ cmd[t].pc = "ai"
    /\ cmd[t].historical_data # None
    /\ Len(cmd[t].historical_data.closes) >= 14
    /\ RollingMean(Loss(cmd[t].historical_data.closes), 14).num = 0

\* C23: for a series of at least 14 bars whose average loss over the RSI
\* window is zero, the RSI is computed without a division error, is 100,
\* and its signal is overbought.
C23_ZeroLossRsi ==
    \A t \in Users :
        ZeroLoss(t) =>
            /\ cmd[t].context.rsi = Num(100, 1)
            /\ cmd[t].context.rsi_signal = "overbought"

\* C24: for the same sequence of requests and the same provider outcomes,
\* get_stock_data and get_historical_data of the standalone manager return
\* what those of the modular manager return, and both have made the same
\* requests to the providers.
C24_StandaloneEquivalence ==
    calls[Modular].pc = "ret" /\ calls[Standalone].pc = "ret" =>
        /\ calls[Standalone].result = calls[Modular].result
        /\ fetches["standalone"] = fetches["bot"]

\* C25: for advice of any length, every follow-up message /stockadvice
\* sends after the embed has a content of at most 2000 characters, and the
\* description of the embed has at most 4000 characters.
C25_ChunkLimit ==
    \A t \in Users :
        /\ cmd[t].description <= 4000
        /\ \A k \in 1..Len(cmd[t].followups) : cmd[t].followups[k] <= 2000

\* No symbol is twice in the list.
NoDuplicates(stocks) ==
    \A i, j \in 1..Len(stocks) : stocks[i] = stocks[j] => i = j

\* C26: add_tracked_stock is idempotent and creates no duplicate: for a
\* symbol in any letter case, if its upper-case form is in the persisted
\* list the list is left as it is and True is returned; otherwise the
\* upper-case form is appended once.
C26_AddIdempotent ==
    (trail # <<>> /\ trail[Len(trail)].name = "add"
                  /\ trail[Len(trail)].rd = "ok" /\ trail[Len(trail)].w # "fail") =>
        LET e == trail[Len(trail)] IN
        /\ Contains(e.before, Upper(e.sym)) =>
               saved.stocks = e.before /\ e.reply = "True"
        /\ ~Contains(e.before, Upper(e.sym)) =>
               saved.stocks = Append(e.before, Upper(e.sym))
        /\ NoDuplicates(e.before) => NoDuplicates(saved.stocks)

\* The sends of an alert event to the channels of guild g, and the
\* messages it got.
TriedIn(e, g) == {k \in 1..Len(e.tried) : e.tried[k].ch[1] = g}
SentIn(e, g) == {k \in 1..Len(e.sent) : e.sent[k][1] = g}

\* C27: for one alert event each guild receives at most one message; when
\* the guild has the channel stock-<symbol> and the send to it succeeds, no
\* general channel receives it; the general channels are tried only when
\* there is no stock channel or the send to it was forbidden, and not
\* beyond the first send that succeeds.
C27_OneAlertPerGuild ==
    \A n \in 1..Len(trail) :
        trail[n].name = "alert" =>
            LET e == trail[n] IN
            \A g \in 1..Len(Guilds) :
                LET sc == FindChannel(Guilds[g], "stock-" \o Lower(e.sym)) IN
                /\ Cardinality(SentIn(e, g)) <= 1
                /\ (sc # 0 /\ e.out[<<g, sc>>] = "ok") =>
                       \A k \in SentIn(e, g) : e.sent[k] = <<g, sc>>
                /\ \A k \in TriedIn(e, g) :
                       e.tried[k].as = "general" =>
                           /\ sc = 0 \/ e.out[<<g, sc>>] = "forbidden"
                           /\ \A j \in TriedIn(e, g) :
                                  (j < k /\ e.tried[j].as = "general") =>
                                      e.out[e.tried[j].ch] = "forbidden"

\* For A, the stock channel of the first guild refused the alert and its
\* general channel took it; in the second guild "trading" refused and
\* "general" took it.
C27_Witness ==
    \E n \in 1..Len(trail) :
        /\ trail[n].name = "alert" /\ trail[n].sym = "A"
        /\ trail[n].out[<<1, 1>>] = "forbidden"
        /\ trail[n].sent = << <<1, 2>>, <<2, 2>> >>
        /\ Len(trail[n].tried) = 4

\* C28: from a tracked list without duplicates, no step of any interleaving
\* of /track and /untrack commands puts a symbol into the in-memory list
\* twice, and a symbol is appended only by a /track command that holds a
\* quote for it.
C28_NoDuplicateSymbols ==
    [][NoDuplicates(tracked_stocks) =>
          /\ NoDuplicates(tracked_stocks')
          /\ Len(tracked_stocks') > Len(tracked_stocks) =>
                 \E t \in Users :
                     /\ running = t
                     /\ cmd[t].name = "track"
                     /\ calls[t].pc = "ret"
                     /\ calls[t].result # None
                     /\ calls[t].result.symbol = cmd[t].sym
                     /\ tracked_stocks' = Append(tracked_stocks, cmd[t].sym)]_vars

\* Two /track B were suspended on their quote requests at the same time:
\* one has appended B, the other is still waiting for its own request.
C28_Witness ==
    \E t, u \in Users :
        /\ t # u
        /\ cmd[t].pc = "idle"
        /\ trail # <<>> /\ trail[Len(trail)].name = "track"
        /\ trail[Len(trail)].sym = "B"
        /\ Contains(tracked_stocks, "B")
        /\ cmd[u].name = "track" /\ cmd[u].sym = "B"
        /\ calls[u].pc = "primary"

\* C29: /untrack S takes S out of the tracked list and leaves last_prices
\* as it is, and a tick that gets a quote for a symbol with a baseline
\* compares the price with that baseline: after /untrack S and /track S the
\* next tick measures S against the baseline from before the /untrack.
C29_UntrackKeepsBaseline ==
    [][/\ (Len(trail') > Len(trail) /\ trail'[Len(trail')].name = "untrack") =>
              /\ ~Contains(tracked_stocks', trail'[Len(trail')].sym)
              /\ last_prices' = last_prices
       /\ ( /\ mon.pc = "quote" /\ mon'.pc # "quote"
            /\ calls["mon"].pc = "ret" /\ calls["mon"].result # None
            /\ last_prices[mon.sym].present ) =>
              LET e == mon'.log[Len(mon'.log)] IN
              /\ e.sym = mon.sym
              /\ e.base = last_prices[mon.sym].price
              /\ e.base # 0 =>
                     (e.alerted <=> Abs(e.price - e.base) * 100 >= AlertThreshold * Abs(e.base))]_vars

\* A was untracked and tracked again before this tick; the tick got 103 for
\* A, compared it with the baseline 100 of an earlier tick and raised an alert.
C29_Witness ==
    /\ Len(trail) = 2
    /\ trail[1].name = "untrack" /\ trail[1].sym = "A"
    /\ trail[2].name = "track" /\ trail[2].sym = "A"
    /\ mon.pc = "alert" /\ ~mon.changed
    /\ mon.log[Len(mon.log)].sym = "A"
    /\ mon.log[Len(mon.log)].base = 100
    /\ mon.log[Len(mon.log)].price = 103
    /\ mon.log[Len(mon.log)].alerted

\* C30: as long as every write of the tracked-stocks document has succeeded,
\* whenever control is with the event loop the persisted stocks list is the
\* in-memory tracked list and the persisted count is its length, under any
\* interleaving of /track, /untrack and monitor ticks.
C30_MemoryDiskAgreement ==
    ( /\ running = "none"
      /\ \A k \in 1..Len(trail) : trail[k].w = "ok" ) =>
        /\ saved.stocks = tracked_stocks
        /\ saved.count = Len(tracked_stocks)

\* /untrack A and /track B of [A] are both written, a tick is suspended in
\* its request for a quote, and the document holds [B] with count 1.
C30_Witness ==
    /\ running = "none"
    /\ Len(trail) = 2
    /\ trail[1].name = "untrack" /\ trail[1].w = "ok"
    /\ trail[2].name = "track" /\ trail[2].w = "ok"
    /\ mon.pc = "quote"
    /\ tracked_stocks = <<"B">>
    /\ saved = Document(<<"B">>)

====
